---- MODULE Spec2Model ----
(***************************************************************************)
(* Model of artico3/runtime/project.py: the Project aggregate, its load    *)
(* operation (descriptor parsing, shuffler derivation, kernel derivation   *)
(* and memory normalisation, slot creation) and the integrity check.       *)
(*                                                                         *)
(* Text that the code inspects character by character (section names, the  *)
(* target part, board lists, integer option values) is a sequence of       *)
(* one-character strings.  Text that is only stored is a TLA+ string.      *)
(* An optional Python value is <<>> for None and <<v>> for the value v.    *)
(***************************************************************************)
EXTENDS Integers, Sequences, FiniteSets, TLC

\* ------------------------------------------------------------------ bounds
MaxLoads == 2       \* load calls made during one process lifetime
MaxSections == 2    \* sections that follow [General] in one descriptor

\* ------------------------------------------------------- Python helpers
None == <<>>
Some(v) == <<v>>

\* s.startswith(p)
StartsWith(s, p) == Len(s) >= Len(p) /\ SubSeq(s, 1, Len(p)) = p

\* `d in p` on strings
IsSubstring(d, p) == \E i \in 0..(Len(p) - Len(d)) : SubSeq(p, i + 1, i + Len(d)) = d

Digits == <<"0", "1", "2", "3", "4", "5", "6", "7", "8", "9">>

DigitVal(c) == (CHOOSE i \in 1..10 : Digits[i] = c) - 1

RECURSIVE ParseInt(_)
\* int(s) for a string of decimal digits
ParseInt(s) == IF Len(s) = 0 THEN 0
               ELSE 10 * ParseInt(SubSeq(s, 1, Len(s) - 1)) + DigitVal(s[Len(s)])

IsSep(c) == c \in {",", " "}

RECURSIVE SplitFrom(_, _, _, _)
\* scanning state of re.split(r"[, ]+", s): i is the next character, cur the
\* token being collected, insep tells that the previous character was a separator
SplitFrom(s, i, cur, insep) ==
    IF i > Len(s) THEN <<cur>>
    ELSE IF IsSep(s[i])
         THEN IF insep THEN SplitFrom(s, i + 1, cur, TRUE)
              ELSE <<cur>> \o SplitFrom(s, i + 1, <<>>, TRUE)
         ELSE SplitFrom(s, i + 1, Append(cur, s[i]), FALSE)

\* re.split(r"[, ]+", s)
ReSplit(s) == SplitFrom(s, 1, <<>>, FALSE)

\* re.search with (?P<name>.*): an empty name is accepted
ReSearchName_EmptyName(s) ==
    LET ats == {i \in 1..Len(s) : s[i] = "@"}
    IN IF ats = {} THEN None
       ELSE LET i == CHOOSE j \in ats : \A k \in ats : k <= j
            IN Some(SubSeq(s, i + 1, Len(s)))

\* re.search(r"^.*@(?P<name>.+)", s): the greedy prefix ends at the last "@"
\* that still has a character after it; None when there is no such "@"
ReSearchName(s) ==
    LET ats == {i \in 1..(Len(s) - 1) : s[i] = "@"}
    IN IF ats = {} THEN None
       ELSE LET i == CHOOSE j \in ats : \A k \in ats : k <= j
            IN Some(SubSeq(s, i + 1, Len(s)))

\* --------------------------------------------------- external collaborators
\* artico3.devices.fpgas, in iteration order
fpgas == <<
    [device |-> <<"z", "7">>, slots |-> 2, pipe_depth |-> 3,
     clk_buffer |-> "global", rst_buffer |-> "global"],
    [device |-> <<"7">>, slots |-> 1, pipe_depth |-> 2,
     clk_buffer |-> "none", rst_buffer |-> "global"],
    [device |-> <<"u", "9">>, slots |-> 3, pipe_depth |-> 4,
     clk_buffer |-> "horizontal", rst_buffer |-> "none"] >>

\* working directory of the process, as path components
Cwd == <<"/", "work">>

\* shutil2.abspath: a path is a sequence of components, the last two being
\* the file's stem and its extension
abspath(p) == IF Len(p) > 0 /\ p[1] = "/" THEN p ELSE Cwd \o p

\* shutil2.dirname
dirname(p) == SubSeq(p, 1, Len(p) - 2)

\* shutil2.trimext
trimext(p) == SubSeq(p, 1, Len(p) - 1)

\* ------------------------------------------------------------------ inputs
KernelPrefix == <<"A", "3", "K", "e", "r", "n", "e", "l">>

GeneralName == <<"G", "e", "n", "e", "r", "a", "l">>

\* option maps: key -> raw text
Opt(k, v) == [x \in {k} |-> v]

Merge(f, g) == [x \in (DOMAIN f) \cup (DOMAIN g) |-> IF x \in DOMAIN g THEN g[x] ELSE f[x]]

Section(n, o) == [name |-> n, opts |-> o]

HwVhdl == Opt("HwSource", "vhdl")

\* the sections a descriptor may carry after [General]
ExtraSections == {
    \* A3Kernel@a, 16401 bytes in 2 banks
    Section(KernelPrefix \o <<"@", "a">>,
            Merge(HwVhdl, Merge(Opt("MemBytes", <<"1", "6", "4", "0", "1">>),
                                Opt("MemBanks", <<"2">>)))),
    \* A3Kernel@a with an unknown reset polarity
    Section(KernelPrefix \o <<"@", "a">>, Merge(HwVhdl, Opt("RstPol", "rising"))),
    \* A3Kernel@b, every option defaulted but the source
    Section(KernelPrefix \o <<"@", "b">>, HwVhdl),
    \* A3Kernel@b, 16400 bytes in 2 banks, active-high reset, explicit registers
    Section(KernelPrefix \o <<"@", "b">>,
            Merge(Opt("HwSource", "hls"),
            Merge(Opt("MemBytes", <<"1", "6", "4", "0", "0">>),
            Merge(Opt("MemBanks", <<"2">>),
            Merge(Opt("RstPol", "high"),
            Merge(Opt("RegRW", <<"1">>), Opt("RegRO", <<"0">>))))))),
    \* A3Kernel@b without HwSource
    Section(KernelPrefix \o <<"@", "b">>, Opt("MemBanks", <<"1">>)),
    \* A3Kernel@b, 65535 bytes in 3 banks
    Section(KernelPrefix \o <<"@", "b">>,
            Merge(HwVhdl, Merge(Opt("MemBytes", <<"6", "5", "5", "3", "5">>),
                                Opt("MemBanks", <<"3">>)))),
    \* A3Kernel@b, exactly 65536 bytes in 1 bank
    Section(KernelPrefix \o <<"@", "b">>,
            Merge(HwVhdl, Merge(Opt("MemBytes", <<"6", "5", "5", "3", "6">>),
                                Opt("MemBanks", <<"1">>)))),
    \* A3Kernel@a@, 70000 bytes
    Section(KernelPrefix \o <<"@", "a", "@">>,
            Merge(HwVhdl, Opt("MemBytes", <<"7", "0", "0", "0", "0">>))),
    \* A3Kernel, no "@"
    Section(KernelPrefix, HwVhdl),
    \* A3Kernel@, nothing after "@"
    Section(KernelPrefix \o <<"@">>, HwVhdl),
    \* O@c, not a kernel section
    Section(<<"O", "@", "c">>, Opt("MemBytes", <<"9">>)) }

GeneralKeys == {"Name", "TargetBoard", "TargetPart", "ReferenceDesign",
                "TargetXil", "TargetOS"}

FullGeneral(n, part) ==
    [k \in GeneralKeys \cup {"CFlags"} |->
        CASE k = "Name" -> n
          [] k = "TargetBoard" -> <<"z", ",", " ", "p">>
          [] k = "TargetPart" -> part
          [] k = "ReferenceDesign" -> "timer"
          [] k = "TargetXil" -> <<"v", "i", "v", ",", "1", "7">>
          [] k = "TargetOS" -> "linux"
          [] OTHER -> "-O3"]

Without(f, k) == [x \in (DOMAIN f) \ {k} |-> f[x]]

\* the [General] sections a descriptor may carry
Generals == {
    FullGeneral("p1", <<"x", "z", "7", "c">>),
    Merge(Without(FullGeneral("p2", <<"u", "9">>), "CFlags"), Opt("LdFlags", "-lm")),
    FullGeneral("p3", <<"z", "x", "9">>),
    Without(FullGeneral("p4", <<"u", "9">>), "TargetOS") }

SeqsUpTo(S, n) == UNION {[1..m -> S] : m \in 0..n}

DistinctNames(ss) == \A i, j \in 1..Len(ss) : i # j => ss[i].name # ss[j].name

\* documents the config reader can return: section names are unique
Documents ==
    {ss \in SeqsUpTo(ExtraSections, MaxSections) : DistinctNames(ss)}
    \cup {<<Section(GeneralName, g)>> \o ss :
            g \in Generals,
            ss \in {t \in SeqsUpTo(ExtraSections, MaxSections) : DistinctNames(t)}}

\* the descriptor the tool is pointed at, relative to the working directory
ProjectFile == <<"prj", "a3", ".cfg">>

\* the paths load is called with; the second one never exists
Filepaths == {ProjectFile, <<"/", "tmp", "b3", ".ini">>}

\* what Project.__init__ finds as the repository (argument or environment)
Repo == "/opt/artico3"

\* ------------------------------------------------------------- cfg access
\* cfg.has_section / cfg.has_option / cfg.get on a document
has_section(cfg, sec) == \E i \in 1..Len(cfg) : cfg[i].name = sec

SectionOf(cfg, sec) == cfg[CHOOSE i \in 1..Len(cfg) : cfg[i].name = sec]

has_option(cfg, sec, k) == has_section(cfg, sec) /\ k \in DOMAIN SectionOf(cfg, sec).opts

get(cfg, sec, k) == SectionOf(cfg, sec).opts[k]

\* the exception cfg.get(sec, k) raises, "" when it returns a value
GetError(cfg, sec, k) ==
    IF ~has_section(cfg, sec) THEN "NoSectionError"
    ELSE IF ~has_option(cfg, sec, k) THEN "NoOptionError"
    ELSE ""

\* ------------------------------------------------------------- entities
\* Shuffler.__init__
Shuffler == [slots |-> 0, stages |-> 0, clkbuf |-> "none", rstbuf |-> "none",
             xdcpart |-> <<>>]

\* Implementation.__init__
Implementation == [repo |-> "", board |-> <<>>, part |-> <<>>, design |-> "",
                   xil |-> <<>>, os |-> "", cflags |-> "", ldflags |-> ""]

\* Kernel.__init__; oid is the identity of the constructed object
Kernel(nm, hwsrc, membytes, membanks, regrw, regro, rstpol, oid) ==
    [name |-> nm, hwsrc |-> hwsrc, membytes |-> membytes, membanks |-> membanks,
     regrw |-> regrw, regro |-> regro, rstpol |-> rstpol, oid |-> oid]

\* Slot.__init__ followed by slot.kerns.append(kernel); id is Slot._id at the
\* call, oid the identity of the constructed object
Slot(id, kernel, oid) == [id |-> id, kerns |-> <<kernel>>, oid |-> oid]

\* Project.__init__ when a repository is found: the fields of a new
\* project; Slot._id belongs to the class and is carried over
NewProject(slotid) ==
    [kerns |-> <<>>, slots |-> <<>>, shuffler |-> Shuffler,
     impl |-> [Implementation EXCEPT !.repo = Repo],
     name |-> "", file |-> <<>>, dir |-> <<>>, basedir |-> <<>>,
     Slot_id |-> slotid, outcome |-> "constructed"]

\* outcomes that end the process: sys.exit(1) and the uncaught exceptions
Running(m) == m.outcome \in {"constructed", "running", "returned", "notfound"}

\* ------------------------------------------------------------ operations
\* _parse_shuffler without the else branch of its loop
parse_shuffler_NoExit(m, part) ==
    LET hits == {i \in 1..Len(fpgas) : IsSubstring(fpgas[i].device, part)}
    IN IF hits = {} THEN m
       ELSE LET d == fpgas[CHOOSE i \in hits : \A j \in hits : i <= j]
            IN [m EXCEPT !.shuffler = [slots |-> d.slots, stages |-> d.pipe_depth,
                                       clkbuf |-> d.clk_buffer, rstbuf |-> d.rst_buffer,
                                       xdcpart |-> d.device]]

\* _parse_shuffler: the first table entry whose identifier occurs in part
\* fills the shuffler; sys.exit(1) when no entry does
parse_shuffler(m, part) ==
    LET hits == {i \in 1..Len(fpgas) : IsSubstring(fpgas[i].device, part)}
    IN IF hits = {} THEN [m EXCEPT !.outcome = "SystemExit"]
       ELSE LET d == fpgas[CHOOSE i \in hits : \A j \in hits : i <= j]
            IN [m EXCEPT !.shuffler = [slots |-> d.slots, stages |-> d.pipe_depth,
                                       clkbuf |-> d.clk_buffer, rstbuf |-> d.rst_buffer,
                                       xdcpart |-> d.device]]

\* the rounding without the final "* membanks"
AlignedBytes_PerBank(membytes, membanks) ==
    (-((-membytes) \div (4 * membanks))) * 4

\* int(math.ceil((membytes / membanks) / 4) * 4 * membanks), membanks # 0.
\* The float quotient is exact enough for the ceiling to be the integer
\* ceiling: -((-a) \div b) is the ceiling of a / b.
AlignedBytes(membytes, membanks) ==
    (-((-membytes) \div (4 * membanks))) * 4 * membanks

\* the declared size kept as it is
NormalizeMem_Declared(membytes, membanks) == membytes

\* lines 251-253: the memory size a kernel is given
NormalizeMem(membytes, membanks) ==
    IF membytes # AlignedBytes(membytes, membanks)
    THEN AlignedBytes(membytes, membanks)
    ELSE membytes

\* the value of an integer option of a kernel section, default dflt
IntOption(cfg, sec, k, dflt) ==
    IF has_option(cfg, sec, k) THEN ParseInt(get(cfg, sec, k)) ELSE dflt

\* _parse_kernels, lines 225-271: the exception one round of the loop raises,
\* "" when it reaches the Kernel constructor
KernelError(cfg, sec) ==
    IF ReSearchName(sec) = None THEN "AttributeError"
    ELSE IF IntOption(cfg, sec, "MemBanks", 2) = 0 THEN "ZeroDivisionError"
    ELSE ""

\* _parse_kernels, lines 225-274: the kernel one round of the loop builds
KernelOf(cfg, sec, oid) ==
    LET membytes == IntOption(cfg, sec, "MemBytes", 16 * (2 ^ 10))
        membanks == IntOption(cfg, sec, "MemBanks", 2)
    IN Kernel(ReSearchName(sec)[1],
              IF has_option(cfg, sec, "HwSource")
              THEN Some(get(cfg, sec, "HwSource")) ELSE None,
              NormalizeMem(membytes, membanks),
              membanks,
              IntOption(cfg, sec, "RegRW", 4),
              IntOption(cfg, sec, "RegRO", 4),
              IF has_option(cfg, sec, "RstPol") THEN get(cfg, sec, "RstPol") ELSE "low",
              oid)

\* [_ for _ in cfg.sections() if _.startswith("A3Kernel")]
KernelSections(cfg) ==
    LET names == [i \in 1..Len(cfg) |-> cfg[i].name]
    IN SelectSeq(names, LAMBDA n : StartsWith(n, KernelPrefix))

RECURSIVE parse_kernels_from(_, _, _, _, _)
\* the loop of _parse_kernels from its i-th round on; ld numbers the load
parse_kernels_from(m, cfg, secs, i, ld) ==
    IF i > Len(secs) THEN m
    ELSE IF KernelError(cfg, secs[i]) # ""
         THEN [m EXCEPT !.outcome = KernelError(cfg, secs[i])]
         ELSE parse_kernels_from(
                [m EXCEPT !.kerns = Append(@, KernelOf(cfg, secs[i], <<ld, Len(@) + 1>>))],
                cfg, secs, i + 1, ld)

\* _parse_kernels
parse_kernels(m, cfg, ld) == parse_kernels_from(m, cfg, KernelSections(cfg), 1, ld)

RequiredKeys == <<"Name", "TargetBoard", "TargetPart", "ReferenceDesign",
                  "TargetXil", "TargetOS">>

\* the assignment _parse_project makes from one required key
SetGeneral(m, k, v) ==
    CASE k = "Name" -> [m EXCEPT !.name = v]
      [] k = "TargetBoard" -> [m EXCEPT !.impl.board = ReSplit(v)]
      [] k = "TargetPart" -> [m EXCEPT !.impl.part = v]
      [] k = "ReferenceDesign" -> [m EXCEPT !.impl.design = v]
      [] k = "TargetXil" -> [m EXCEPT !.impl.xil = ReSplit(v)]
      [] k = "TargetOS" -> [m EXCEPT !.impl.os = v]

RECURSIVE parse_general(_, _, _)
\* _parse_project, lines 174-181, from the i-th required key on
parse_general(m, cfg, i) ==
    IF i > Len(RequiredKeys) THEN m
    ELSE IF GetError(cfg, GeneralName, RequiredKeys[i]) # ""
         THEN [m EXCEPT !.outcome = GetError(cfg, GeneralName, RequiredKeys[i])]
         ELSE parse_general(
                SetGeneral(m, RequiredKeys[i], get(cfg, GeneralName, RequiredKeys[i])),
                cfg, i + 1)

\* _parse_project, lines 182-189
parse_flags(m, cfg) ==
    [m EXCEPT !.impl.cflags = IF has_option(cfg, GeneralName, "CFlags")
                              THEN get(cfg, GeneralName, "CFlags") ELSE "",
              !.impl.ldflags = IF has_option(cfg, GeneralName, "LdFlags")
                               THEN get(cfg, GeneralName, "LdFlags") ELSE ""]

\* slots built without "Slot._id += 1"
MakeSlots_NoIncrement(m, n, kernel, ld) ==
    [m EXCEPT !.slots = @ \o [i \in 1..n |->
                               Slot(m.Slot_id, kernel, <<ld, Len(m.kerns) + i>>)]]

\* _parse_project, lines 199-203: n slots bound to kernel, numbered from
\* Slot._id on
MakeSlots(m, n, kernel, ld) ==
    [m EXCEPT !.slots = @ \o [i \in 1..n |->
                               Slot(m.Slot_id + i - 1, kernel,
                                    <<ld, Len(m.kerns) + i>>)],
              !.Slot_id = @ + n]

\* every slot bound to a placeholder of its own
add_dummy_PerSlot(m, ld) ==
    LET kernel == Kernel(<<"d", "u", "m", "m", "y">>, Some("vhdl"), 4096, 2, 2, 2,
                         "low", <<ld, Len(m.kerns) + 1>>)
        n == m.shuffler.slots
        m1 == [m EXCEPT !.kerns = Append(@, kernel)]
    IN [m1 EXCEPT !.slots = @ \o [i \in 1..n |->
                                    Slot(m.Slot_id + i - 1,
                                         [kernel EXCEPT !.oid = <<ld, Len(m1.kerns) + n + i>>],
                                         <<ld, Len(m1.kerns) + i>>)],
                  !.Slot_id = @ + n]

\* _parse_project, lines 197-203: the placeholder kernel and the slots
add_dummy(m, ld) ==
    LET kernel == Kernel(<<"d", "u", "m", "m", "y">>, Some("vhdl"), 4096, 2, 2, 2,
                         "low", <<ld, Len(m.kerns) + 1>>)
    IN MakeSlots([m EXCEPT !.kerns = Append(@, kernel)], m.shuffler.slots, kernel, ld)

\* _parse_project
parse_project(m, cfg, ld) ==
    LET m1 == parse_general(m, cfg, 1)
        m2 == parse_shuffler(parse_flags(m1, cfg), m1.impl.part)
        m3 == parse_kernels(m2, cfg, ld)
    IN IF m1.outcome # "running" THEN m1
       ELSE IF m2.outcome # "running" THEN m2
       ELSE IF m3.outcome # "running" THEN m3
       ELSE add_dummy(m3, ld)

\* the three tests _check_project makes on one kernel
KernelOk(k) ==
    /\ k.hwsrc # None
    /\ ~(k.membytes > 64 * (2 ^ 10))
    /\ k.rstpol \in {"high", "low"}

\* _check_project without the test on hwsrc
check_project_NoSource(m) ==
    IF \E i \in 1..Len(m.kerns) :
          \/ m.kerns[i].membytes > 64 * (2 ^ 10)
          \/ m.kerns[i].rstpol \notin {"high", "low"}
    THEN [m EXCEPT !.outcome = "SystemExit"]
    ELSE m

\* _check_project
check_project(m) ==
    IF \E i \in 1..Len(m.kerns) : ~KernelOk(m.kerns[i])
    THEN [m EXCEPT !.outcome = "SystemExit"]
    ELSE m

\* load without lines 152-155
load_NoReset(m, filepath, readable, cfg, ld) ==
    LET m0 == [m EXCEPT !.file = abspath(filepath),
                        !.dir = dirname(abspath(filepath)),
                        !.basedir = trimext(abspath(filepath)),
                        !.outcome = "running"]
        m1 == parse_project(m0, cfg, ld)
        m2 == check_project(m1)
    IN IF ~readable THEN [m0 EXCEPT !.outcome = "notfound"]
       ELSE IF m1.outcome # "running" THEN m1
       ELSE IF m2.outcome # "running" THEN m2
       ELSE [m2 EXCEPT !.outcome = "returned"]

\* Project.load; readable tells whether cfg.read could read filepath, cfg is
\* the document it read, ld numbers the call
load(m, filepath, readable, cfg, ld) ==
    LET m0 == [m EXCEPT !.Slot_id = 0, !.kerns = <<>>, !.slots = <<>>,
                        !.file = abspath(filepath),
                        !.dir = dirname(abspath(filepath)),
                        !.basedir = trimext(abspath(filepath)),
                        !.outcome = "running"]
        m1 == parse_project(m0, cfg, ld)
        m2 == check_project(m1)
    IN IF ~readable THEN [m0 EXCEPT !.outcome = "notfound"]
       ELSE IF m1.outcome # "running" THEN m1
       ELSE IF m2.outcome # "running" THEN m2
       ELSE [m2 EXCEPT !.outcome = "returned"]

\* ------------------------------------------------------------------ state
VARIABLES
    kerns,      \* Project.kerns
    slots,      \* Project.slots
    shuffler,   \* Project.shuffler
    impl,       \* Project.impl
    name,       \* Project.name
    file,       \* Project.file
    dir,        \* Project.dir
    basedir,    \* Project.basedir
    Slot_id,    \* Slot._id, shared by every project of the process
    outcome,    \* how the last call ended
    calls,      \* how each load call made so far ended, oldest first
    arg         \* arguments of the project's last load call and what the
                \* reader found (NoArg before the first)

vars == <<kerns, slots, shuffler, impl, name, file, dir, basedir, Slot_id,
          outcome, calls, arg>>

\* the project and the class counter as one record
Machine ==
    [kerns |-> kerns, slots |-> slots, shuffler |-> shuffler, impl |-> impl,
     name |-> name, file |-> file, dir |-> dir, basedir |-> basedir,
     Slot_id |-> Slot_id, outcome |-> outcome]

Becomes(m) ==
    /\ kerns' = m.kerns
    /\ slots' = m.slots
    /\ shuffler' = m.shuffler
    /\ impl' = m.impl
    /\ name' = m.name
    /\ file' = m.file
    /\ dir' = m.dir
    /\ basedir' = m.basedir
    /\ Slot_id' = m.Slot_id
    /\ outcome' = m.outcome

Starts(m) ==
    /\ kerns = m.kerns
    /\ slots = m.slots
    /\ shuffler = m.shuffler
    /\ impl = m.impl
    /\ name = m.name
    /\ file = m.file
    /\ dir = m.dir
    /\ basedir = m.basedir
    /\ Slot_id = m.Slot_id
    /\ outcome = m.outcome

NoArg == [filepath |-> <<>>, readable |-> FALSE, cfg |-> <<>>]

Init ==
    /\ Starts(NewProject(0))
    /\ calls = <<>>
    /\ arg = NoArg

\* Project(): a new project replaces the one at hand
Construct ==
    /\ Becomes(NewProject(Slot_id))
    /\ arg' = NoArg
    /\ UNCHANGED calls

\* project.load(filepath)
Load(filepath, readable, cfg) ==
    /\ Becomes(load(Machine, filepath, readable, cfg, Len(calls) + 1))
    /\ calls' = Append(calls, outcome')
    /\ arg' = [filepath |-> filepath, readable |-> readable, cfg |-> cfg]

\* the process is alive (no sys.exit, no uncaught exception so far)
Alive == Running(Machine)

Next ==
    \/ Alive /\ Construct
    \/ Alive /\ Len(calls) < MaxLoads
             /\ \E cfg \in Documents : Load(ProjectFile, TRUE, cfg)
    \/ Alive /\ Len(calls) < MaxLoads
             /\ \E filepath \in Filepaths : Load(filepath, FALSE, <<>>)

Spec == Init /\ [][Next]_vars

\* ------------------------------------------------- the last call's input
\* the last load read a document whose [General] has every required key
ArgGeneralOk ==
    /\ arg.readable
    /\ \A i \in 1..Len(RequiredKeys) : has_option(arg.cfg, GeneralName, RequiredKeys[i])

ArgPart == get(arg.cfg, GeneralName, "TargetPart")

\* the device-table entries whose identifier occurs in part
Matches(part) == {i \in 1..Len(fpgas) : IsSubstring(fpgas[i].device, part)}

FirstMatch(part) == fpgas[CHOOSE i \in Matches(part) : \A j \in Matches(part) : i <= j]

\* the names of the last document's kernel sections, in section order
ArgKernelSections == KernelSections(arg.cfg)

\* a section name with no "@" that is followed by at least one character
Nameless(sec) == ~\E i \in 1..(Len(sec) - 1) : sec[i] = "@"

\* the last load got as far as the integrity check
ArgParses ==
    /\ ArgGeneralOk
    /\ Matches(ArgPart) # {}
    /\ \A i \in 1..Len(ArgKernelSections) : ~Nameless(ArgKernelSections[i])

\* the declared (or defaulted) memory size and bank count of a kernel section
DeclaredBytes(sec) ==
    IF has_option(arg.cfg, sec, "MemBytes") THEN ParseInt(get(arg.cfg, sec, "MemBytes"))
    ELSE 16384

DeclaredBanks(sec) ==
    IF has_option(arg.cfg, sec, "MemBanks") THEN ParseInt(get(arg.cfg, sec, "MemBanks"))
    ELSE 2

\* the process has ended with a non-zero status: sys.exit(1) or an exception
\* nothing catches
Fatal == outcome \in {"SystemExit", "AttributeError", "NoSectionError",
                      "NoOptionError", "ZeroDivisionError"}

Placeholder(k) ==
    /\ k.name = <<"d", "u", "m", "m", "y">>
    /\ k.hwsrc = Some("vhdl")
    /\ k.membytes = 4096
    /\ k.membanks = 2
    /\ k.regrw = 2
    /\ k.regro = 2
    /\ k.rstpol = "low"

\* ------------------------------------------------------------------ claims
\* C1: after a load that returns normally the project has as many slots as
\* the first device-table entry whose identifier occurs in the target part
\* declares, and the slot identifiers in list order are 0, 1, ..., n-1.
C1_SlotsMatchDevice ==
    outcome = "returned" =>
        /\ Len(slots) = FirstMatch(ArgPart).slots
        /\ \A i \in 1..Len(slots) : slots[i].id = i - 1

\* a second successful load on a three-slot device after a successful load
C1_Witness ==
    /\ calls = <<"returned", "returned">>
    /\ outcome = "returned"
    /\ Len(slots) = 3
    /\ slots[3].id = 2

\* C2: after a load that returns normally, also when it follows an earlier
\* successful load on the same project, the slot identifiers start at 0, the
\* kernel list holds one kernel per kernel section of this descriptor plus
\* the placeholder, and every kernel and slot object the project holds was
\* constructed by this load.
C2_NoLeakage ==
    outcome = "returned" =>
        /\ Len(slots) > 0 => slots[1].id = 0
        /\ Len(kerns) = Len(ArgKernelSections) + 1
        /\ \A i \in 1..Len(kerns) : kerns[i].oid[1] = Len(calls)
        /\ \A i \in 1..Len(slots) :
              /\ slots[i].oid[1] = Len(calls)
              /\ \A j \in 1..Len(slots[i].kerns) : slots[i].kerns[j].oid[1] = Len(calls)

\* two successful loads in a row, the first of which left kernels and slots
C2_Witness ==
    /\ calls = <<"returned", "returned">>
    /\ outcome = "returned"
    /\ Len(kerns) = 2
    /\ Len(slots) = 2
    /\ kerns[1].oid = <<2, 1>>

\* C3: when the last load read a complete [General] whose target part
\* contains no device-table identifier, the load ended in sys.exit(1), the
\* slot list is empty and Slot._id is 0.
C3_UnsupportedPart ==
    (ArgGeneralOk /\ Matches(ArgPart) = {}) =>
        /\ outcome = "SystemExit"
        /\ slots = <<>>
        /\ Slot_id = 0

\* an unsupported part loaded after a load that had built slots
C3_Witness ==
    /\ calls = <<"returned", "SystemExit">>
    /\ ArgGeneralOk
    /\ Matches(ArgPart) = {}
    /\ shuffler.slots > 0

\* C4: every kernel in the kernel list has a memory size that is a multiple
\* of 4 x membanks; a section declaring 16401 bytes in 2 banks is stored as
\* 16408 and one declaring 16400 bytes in 2 banks as 16400.
C4_MemoryAligned ==
    /\ \A i \in 1..Len(kerns) : kerns[i].membytes % (4 * kerns[i].membanks) = 0
    /\ \A i \in 1..Len(kerns) : i <= Len(ArgKernelSections) =>
          LET sec == ArgKernelSections[i]
          IN /\ (DeclaredBytes(sec) = 16401 /\ DeclaredBanks(sec) = 2)
                    => kerns[i].membytes = 16408
             /\ (DeclaredBytes(sec) = 16400 /\ DeclaredBanks(sec) = 2)
                    => kerns[i].membytes = 16400

\* a loaded project holding a kernel declared with 16401 bytes in 2 banks
C4_Witness ==
    /\ outcome = "returned"
    /\ \E i \in 1..Len(kerns) :
          /\ i <= Len(ArgKernelSections)
          /\ DeclaredBytes(ArgKernelSections[i]) = 16401
          /\ kerns[i].membytes = 16408

\* C5: a load returns normally only if every kernel in the kernel list has a
\* source, at most 65536 bytes and reset polarity "high" or "low"; a load
\* that reaches the check with a kernel violating one of the three, such as
\* a kernel section without HwSource, ends in sys.exit(1).
C5_Integrity ==
    /\ outcome = "returned" =>
          \A i \in 1..Len(kerns) :
              /\ kerns[i].hwsrc # None
              /\ kerns[i].membytes <= 65536
              /\ kerns[i].rstpol \in {"high", "low"}
    /\ ArgParses =>
          /\ (\E i \in 1..Len(ArgKernelSections) :
                  ~has_option(arg.cfg, ArgKernelSections[i], "HwSource"))
                => outcome = "SystemExit"
          /\ (\E i \in 1..Len(kerns) :
                  \/ kerns[i].hwsrc = None
                  \/ kerns[i].membytes > 65536
                  \/ kerns[i].rstpol \notin {"high", "low"})
                => outcome = "SystemExit"

\* a load that parsed a kernel section without HwSource and was stopped
C5_Witness ==
    /\ ArgParses
    /\ outcome = "SystemExit"
    /\ \E i \in 1..Len(kerns) : kerns[i].hwsrc = None /\ kerns[i].membytes <= 65536

\* C6: the 65536-byte cap applies to the normalised size: a kernel section
\* declaring 65535 bytes in 3 banks is stored above the cap and the load
\* ends in sys.exit(1); the stored size is never below the declared one, and
\* every section declaring more than 65536 bytes ends the load in
\* sys.exit(1).
C6_CapAfterNormalisation ==
    ArgParses =>
        \A i \in 1..Len(ArgKernelSections) :
            LET sec == ArgKernelSections[i]
            IN /\ kerns[i].membytes >= DeclaredBytes(sec)
               /\ (DeclaredBytes(sec) = 65535 /\ DeclaredBanks(sec) = 3)
                      => (kerns[i].membytes > 65536 /\ outcome = "SystemExit")
               /\ DeclaredBytes(sec) > 65536 => outcome = "SystemExit"

\* a load stopped by a kernel declared below the cap and stored above it
C6_Witness ==
    /\ ArgParses
    /\ outcome = "SystemExit"
    /\ \E i \in 1..Len(ArgKernelSections) :
          /\ DeclaredBytes(ArgKernelSections[i]) = 65535
          /\ kerns[i].membytes = 65544
    /\ \A i \in 1..Len(kerns) : kerns[i].hwsrc # None /\ kerns[i].rstpol = "low"

\* C7: a load of an unreadable path, or of a document without sections,
\* reports an error and returns leaving every project field as it was.
C7_FailedLoadKeepsProject ==
    [][(Len(calls') = Len(calls) + 1 /\ (~arg'.readable \/ arg'.cfg = <<>>))
         => /\ outcome' = "notfound"
            /\ UNCHANGED <<kerns, slots, file, dir, basedir, name, shuffler, impl>>]_vars

\* C8: whenever no load is in progress and the process is alive, the project
\* holds as many slots as its shuffler counts.
C8_SlotsEqualShuffler ==
    Alive => Len(slots) = shuffler.slots

\* C9: after a load that returns normally the kernel list is one kernel per
\* kernel section, in section order, followed by the placeholder as its only
\* placeholder object, and every slot is bound to exactly that object.
C9_PlaceholderLast ==
    outcome = "returned" =>
        LET n == Len(ArgKernelSections)
        IN /\ Len(kerns) = n + 1
           /\ \A i \in 1..n :
                 LET sec == ArgKernelSections[i]
                 IN /\ Len(kerns[i].name) > 0
                    /\ kerns[i].name =
                         SubSeq(sec, Len(sec) - Len(kerns[i].name) + 1, Len(sec))
                    /\ sec[Len(sec) - Len(kerns[i].name)] = "@"
                    /\ kerns[i].membanks = DeclaredBanks(sec)
                    /\ kerns[i].oid # kerns[n + 1].oid
           /\ Placeholder(kerns[n + 1])
           /\ \A j \in 1..Len(slots) : slots[j].kerns = <<kerns[n + 1]>>

\* a loaded project with two parsed kernels and several slots
C9_Witness ==
    /\ outcome = "returned"
    /\ Len(kerns) = 3
    /\ Len(slots) >= 2
    /\ kerns[1].name # kerns[2].name

\* C10: a load that reaches a kernel section from which no name can be
\* extracted after "@" ends the process with a non-zero status, and the
\* kernel list never holds a kernel with an empty name.
C10_NamelessKernelFatal ==
    /\ (/\ ArgGeneralOk
         /\ Matches(ArgPart) # {}
         /\ \E i \in 1..Len(ArgKernelSections) : Nameless(ArgKernelSections[i]))
          => Fatal
    /\ \A i \in 1..Len(kerns) : Len(kerns[i].name) > 0

\* a load stopped at a kernel section named "A3Kernel@", after it had
\* already built a kernel
C10_Witness ==
    /\ ArgGeneralOk
    /\ Matches(ArgPart) # {}
    /\ \E i \in 1..Len(ArgKernelSections) :
          /\ ArgKernelSections[i] = KernelPrefix \o <<"@">>
          /\ i > 1
    /\ outcome = "AttributeError"
    /\ Len(kerns) = 1
====
